---- MODULE Spec2Model ----
(***************************************************************************)
(* The socket-diagnostics telemetry pipeline of AQM_CCA:                   *)
(*   scripts/parse_ss_tin_output.py   the parser of `ss -tin` text         *)
(*   scripts/publish_ss_json_http.py  the collector thread, the atomic     *)
(*                                    snapshot store and the HTTP publisher*)
(* Texts are TLA+ strings over the alphabet of letters, digits,            *)
(* punctuation, space, tab and newline; a character is a string of length  *)
(* one.                                                                    *)
(***************************************************************************)
EXTENDS Integers, Sequences, FiniteSets, TLC

(***************************************************************************)
(* Python str primitives used by the two scripts.                          *)
(***************************************************************************)
Ch(s, i) == SubSeq(s, i, i)

\* the characters str.isspace() accepts, of those the texts here contain
SpaceCh == {" ", "\t", "\n"}

\* \d of the regular expressions, str.isdigit()
DigitCh == {"0", "1", "2", "3", "4", "5", "6", "7", "8", "9"}

\* [A-Za-z]
AlphaCh ==
    {"a", "b", "c", "d", "e", "f", "g", "h", "i", "j", "k", "l", "m",
     "n", "o", "p", "q", "r", "s", "t", "u", "v", "w", "x", "y", "z",
     "A", "B", "C", "D", "E", "F", "G", "H", "I", "J", "K", "L", "M",
     "N", "O", "P", "Q", "R", "S", "T", "U", "V", "W", "X", "Y", "Z"}

\* [A-Za-z0-9_]
WordCh == AlphaCh \cup DigitCh \cup {"_"}

\* every character of s is in the class C, s may be empty
AllIn(s, C) == \A i \in 1..Len(s) : Ch(s, i) \in C

\* the least and the greatest member of a set of positions, or dflt
FirstOr(S, dflt) == IF S = {} THEN dflt ELSE CHOOSE k \in S : \A j \in S : k <= j

LastOr(S, dflt) == IF S = {} THEN dflt ELSE CHOOSE k \in S : \A j \in S : k >= j

\* `sub in s`
Contains(s, sub) ==
    \E i \in 1..(Len(s) - Len(sub) + 1) : SubSeq(s, i, i + Len(sub) - 1) = sub

\* s.startswith(p)
StartsWith(s, p) == Len(s) >= Len(p) /\ SubSeq(s, 1, Len(p)) = p

\* s.endswith(p)
EndsWith(s, p) == Len(s) >= Len(p) /\ SubSeq(s, Len(s) - Len(p) + 1, Len(s)) = p

\* position of the first character of s at or after i that is in the class C,
\* or Len(s) + 1
FindFrom(s, i, C) == FirstOr({k \in i..Len(s) : Ch(s, k) \in C}, Len(s) + 1)

\* position of the first character of s at or after i that is not in C, or
\* Len(s) + 1
FindNotIn(s, i, C) == FirstOr({k \in i..Len(s) : Ch(s, k) \notin C}, Len(s) + 1)

\* position of the last character of s that is not in C, or 0
LastNotIn(s, C) == LastOr({k \in 1..Len(s) : Ch(s, k) \notin C}, 0)

\* s.lstrip()
LStrip(s) == SubSeq(s, FindNotIn(s, 1, SpaceCh), Len(s))

\* s.rstrip()
RStrip(s) == SubSeq(s, 1, LastNotIn(s, SpaceCh))

\* s.strip()
Strip(s) == LStrip(RStrip(s))

\* s.strip(",")
StripCommas(s) == SubSeq(s, FindNotIn(s, 1, {","}), LastNotIn(s, {","}))

\* s cut at position k: what precedes k, what follows it
CutAt(s, k) ==
    IF k > Len(s) THEN <<s>> ELSE <<SubSeq(s, 1, k - 1), SubSeq(s, k + 1, Len(s))>>

\* s.split(sep, 1): a sequence of one or two strings
SplitFirst(s, sep) == CutAt(s, FindFrom(s, 1, {sep}))

\* s.rsplit(sep, 1) when sep occurs in s
RSplitFirst(s, sep) == CutAt(s, LastOr({i \in 1..Len(s) : Ch(s, i) = sep}, Len(s) + 1))

\* the fields of a text given cut at its first separator: hv[1], then the
\* fields of hv[2]
RECURSIVE SplitCut(_, _)
SplitCut(hv, sep) ==
    IF Len(hv) = 1 THEN hv ELSE <<hv[1]>> \o SplitCut(SplitFirst(hv[2], sep), sep)

\* s.split(sep) for a one-character separator: empty fields are kept
SplitOn(s, sep) == SplitCut(SplitFirst(s, sep), sep)

\* the maximal runs of non-space characters of s from b on, where a run
\* starts at b (or b is past the end), and from the run s[b..e-1] on
RECURSIVE RunsFrom(_, _)
RECURSIVE RunsTo(_, _, _)
RunsFrom(s, b) == IF b > Len(s) THEN <<>> ELSE RunsTo(s, b, FindFrom(s, b, SpaceCh))

RunsTo(s, b, e) == <<SubSeq(s, b, e - 1)>> \o RunsFrom(s, FindNotIn(s, e, SpaceCh))

\* s.split()
SplitWs(s) == RunsFrom(s, FindNotIn(s, 1, SpaceCh))

\* s.splitlines(): the lines without their terminators, no final empty line
SplitLines(s) ==
    IF s = "" THEN <<>>
    ELSE IF EndsWith(s, "\n") THEN SplitOn(SubSeq(s, 1, Len(s) - 1), "\n")
    ELSE SplitOn(s, "\n")

\* sep.join(parts)
RECURSIVE Join(_, _)
Join(parts, sep) ==
    IF parts = <<>> THEN ""
    ELSE IF Len(parts) = 1 THEN parts[1]
    ELSE parts[1] \o sep \o Join(Tail(parts), sep)

\* [x.strip() for x in xs]
StripEach(xs) == [i \in 1..Len(xs) |-> Strip(xs[i])]

\* [p.strip() for p in s.split(",") if p.strip()]
StrippedParts(s) == SelectSeq(StripEach(SplitOn(s, ",")), LAMBDA p : p # "")

(***************************************************************************)
(* parse_ss_tin_output.py.  A parsed value is a record tagged by t:        *)
(*   "str" s | "int" v | "float" v | "pair" a b | "list" items |           *)
(*   "qty" value unit | "dict" d                                           *)
(* An int or float holds the canonical decimal text of the number Python   *)
(* computes (Python integers are unbounded). A Python dict is a function   *)
(* on its keys. A function that can raise returns [raised, ...].           *)
(***************************************************************************)
Str(s) == [t |-> "str", s |-> s]

List(items) == [t |-> "list", items |-> items]

Dict(d) == [t |-> "dict", d |-> d]

EmptyDict == <<>>

\* d[k] = v
DictSet(d, k, v) == [key \in (DOMAIN d) \cup {k} |-> IF key = k THEN v ELSE d[key]]

HasSign(s) == s # "" /\ Ch(s, 1) \in {"+", "-"}

Unsigned(s) == IF HasSign(s) THEN Tail(s) ELSE s

\* \d+
Digits(u) == u # "" /\ AllIn(u, DigitCh)

\* RE_INT = ^[+-]?\d+$
RE_INT(s) == Digits(Unsigned(s))

\* \d+\.\d*|\d*\.\d+|\d+
Decimal(u) ==
    /\ AllIn(u, DigitCh \cup {"."})
    /\ Cardinality({i \in 1..Len(u) : Ch(u, i) = "."}) <= 1
    /\ \E i \in 1..Len(u) : Ch(u, i) \in DigitCh

\* RE_FLOAT = ^[+-]?(?:\d+\.\d*|\d*\.\d+|\d+)$
RE_FLOAT(s) == Decimal(Unsigned(s))

\* [A-Za-z%/] of RE_NUM_UNIT
UnitCh == AlphaCh \cup {"%", "/"}

\* where the unit of RE_NUM_UNIT starts: at the first unit character
UnitAt(s) == FindFrom(s, 1, UnitCh)

NumUnitAt(s, k) ==
    /\ k <= Len(s)
    /\ RE_FLOAT(SubSeq(s, 1, k - 1))
    /\ AllIn(SubSeq(s, k, Len(s)), UnitCh)

\* RE_NUM_UNIT = ^([+-]?(?:\d+\.\d*|\d*\.\d+|\d+))([A-Za-z%/]+)$
RE_NUM_UNIT(s) == NumUnitAt(s, UnitAt(s))

\* RE_IDENTIFIER = ^[A-Za-z_][A-Za-z0-9_]*$
RE_IDENTIFIER(s) ==
    /\ s # ""
    /\ Ch(s, 1) \in AlphaCh \cup {"_"}
    /\ AllIn(s, WordCh)

\* digits without their leading zeros, "0" for zero
StripZeros(ds) ==
    IF AllIn(ds, {"0"}) THEN "0" ELSE SubSeq(ds, FindNotIn(ds, 1, {"0"}), Len(ds))

SignedInt(s, m) == [t |-> "int", v |-> IF Ch(s, 1) = "-" /\ m # "0" THEN "-" \o m ELSE m]

\* int(s) for s matching RE_INT
PyInt(s) == SignedInt(s, StripZeros(Unsigned(s)))

\* a fraction without its trailing zeros, "0" for none
StripFraction(fp) ==
    IF AllIn(fp, {"0"}) THEN "0" ELSE SubSeq(fp, 1, LastNotIn(fp, {"0"}))

SignedFloat(s, parts) ==
    [t |-> "float",
     v |-> (IF Ch(s, 1) = "-" THEN "-" ELSE "") \o StripZeros(parts[1]) \o "."
           \o StripFraction(IF Len(parts) = 2 THEN parts[2] ELSE "")]

\* float(s) for s matching RE_FLOAT: sign, integer part, fraction
PyFloat(s) == SignedFloat(s, SplitFirst(Unsigned(s), "."))

\* float(s) if "." in s else int(s)
PyNum(s) == IF Contains(s, ".") THEN PyFloat(s) ELSE PyInt(s)

\* lines 106-113, with halves = s.split("/", 1)
IsPair(s, halves) ==
    /\ Contains(s, "/") /\ ~StartsWith(s, "/") /\ ~EndsWith(s, "/")
    /\ RE_FLOAT(Strip(halves[1])) /\ RE_FLOAT(Strip(halves[2]))

PairOf(halves) == [t |-> "pair", a |-> PyNum(Strip(halves[1])), b |-> PyNum(Strip(halves[2]))]

\* line 116
IsCommaList(s) ==
    /\ Contains(s, ",")
    /\ \A i \in 1..Len(s) : Ch(s, i) \notin {"(", ")", "[", "]", "{", "}"}

\* lines 117-121
ListOf(parts) ==
    IF parts # <<>> /\ \A i \in 1..Len(parts) : RE_FLOAT(parts[i])
    THEN List([i \in 1..Len(parts) |-> PyNum(parts[i])])
    ELSE List([i \in 1..Len(parts) |-> Str(parts[i])])

\* a variant of QtyOf that keeps the number as text (no conversion at line 134)
qty_text_value(s, k) ==
    [t |-> "qty", value |-> Str(SubSeq(s, 1, k - 1)), unit |-> SubSeq(s, k, Len(s))]

\* lines 130-135
QtyOf(s, k) == [t |-> "qty", value |-> PyNum(SubSeq(s, 1, k - 1)), unit |-> SubSeq(s, k, Len(s))]

\* lines 102-137, with s stripped (line 100)
coerce_stripped(s, halves) ==
    IF s = "" THEN Str(s)
    ELSE IF IsPair(s, halves) THEN PairOf(halves)
    ELSE IF IsCommaList(s) THEN ListOf(StrippedParts(s))
    ELSE IF RE_INT(s) THEN PyInt(s)
    ELSE IF RE_FLOAT(s) THEN PyFloat(s)
    ELSE IF RE_NUM_UNIT(s) THEN QtyOf(s, UnitAt(s))
    ELSE Str(s)

coerce_split(s) == coerce_stripped(s, SplitFirst(s, "/"))

coerce_value(raw) == coerce_split(StripCommas(Strip(raw)))

\* what a step of a loop leaves: the dict built so far, or an exception
Returned(d) == [raised |-> FALSE, d |-> d]

Raised(d) == [raised |-> TRUE, d |-> d]

\* d.setdefault(k, []).append(item): raises AttributeError when d[k] exists
\* and is not a list
SetDefaultAppend(d, k, item) ==
    IF k \notin DOMAIN d THEN Returned(DictSet(d, k, List(<<item>>)))
    ELSE IF d[k].t = "list" THEN Returned(DictSet(d, k, List(Append(d[k].items, item))))
    ELSE Raised(d)

\* d[k] = coerce_value(v)
SetCoerced(d, k, v) == Returned(DictSet(d, k, coerce_value(v)))

\* lines 152-156 for one part p, with kv = p.split(":", 1)
paren_part(out, p, kv) ==
    IF Contains(p, ":") THEN SetCoerced(out, Strip(kv[1]), Strip(kv[2]))
    ELSE SetDefaultAppend(out, "items", Str(p))

\* the loop of line 151 from parts[i] on, after the parts before it left b
RECURSIVE parse_paren_parts(_, _, _)
parse_paren_parts(parts, i, b) ==
    IF b.raised \/ i > Len(parts) THEN b
    ELSE parse_paren_parts(parts, i + 1,
                           paren_part(b.d, parts[i], SplitFirst(parts[i], ":")))

parse_paren_body(body) ==
    parse_paren_parts(StrippedParts(Strip(body)), 1, Returned(EmptyDict))

\* RE_PAREN_GROUP = ([A-Za-z0-9_]+):\(([^)]*)\) matches at position i: a run of
\* word characters from i to e - 1, then ":(", then a body up to the first ")"
GroupNameEnd(text, i) == FindNotIn(text, i, WordCh)

GroupClose(text, e) == FindFrom(text, e + 2, {")"})

GroupAtEnd(text, i, e) ==
    /\ e > i
    /\ e + 1 <= Len(text)
    /\ SubSeq(text, e, e + 1) = ":("
    /\ GroupClose(text, e) <= Len(text)

GroupAt(text, i) == GroupAtEnd(text, i, GroupNameEnd(text, i))

\* the match object of the match at i: its span, name and body
GroupSpan(text, i, e, close) ==
    [start |-> i, stop |-> close,
     name  |-> SubSeq(text, i, e - 1),
     body  |-> SubSeq(text, e + 2, close - 1)]

GroupNamed(text, i, e) == GroupSpan(text, i, e, GroupClose(text, e))

GroupMatch(text, i) == GroupNamed(text, i, GroupNameEnd(text, i))

\* RE_PAREN_GROUP.finditer(text) from position p on: the leftmost match, then
\* the matches after its end
RECURSIVE RE_PAREN_GROUP_finditer(_, _)
matches_after(text, m) == <<m>> \o RE_PAREN_GROUP_finditer(text, m.stop + 1)

\* the matches from the leftmost one, which starts at i; none when i = 0
matches_from(text, i) == IF i = 0 THEN <<>> ELSE matches_after(text, GroupMatch(text, i))

RE_PAREN_GROUP_finditer(text, p) ==
    matches_from(text, FirstOr({i \in p..Len(text) : GroupAt(text, i)}, 0))

\* RE_PAREN_GROUP.sub("", text): text without the matched spans ms
RECURSIVE CutSpans(_, _, _)
CutSpans(text, ms, from) ==
    IF ms = <<>> THEN SubSeq(text, from, Len(text))
    ELSE SubSeq(text, from, ms[1].start - 1) \o CutSpans(text, Tail(ms), ms[1].stop + 1)

RE_PAREN_GROUP_sub(text) == CutSpans(text, RE_PAREN_GROUP_finditer(text, 1), 1)

\* line 181 for one match, with pb what parse_paren_body(body) left
group_step(groups, name, pb) ==
    [raised |-> pb.raised, d |-> DictSet(groups, name, Dict(pb.d))]

\* the loop of lines 178-181 from ms[i] on, after the matches before it left b
RECURSIVE parse_groups(_, _, _)
parse_groups(ms, i, b) ==
    IF b.raised \/ i > Len(ms) THEN b
    ELSE parse_groups(ms, i + 1, group_step(b.d, ms[i].name, parse_paren_body(ms[i].body)))

looks_like_value(nxt) == RE_FLOAT(nxt) \/ RE_NUM_UNIT(nxt) \/ RE_INT(nxt)

\* tokens[i + 1], "" when tokens[i] is the last
NextToken(tokens, i) == IF i + 1 <= Len(tokens) THEN tokens[i + 1] ELSE ""

\* lines 212-218: tokens[i] is a key and tokens[i + 1] its value
IsKeyValue(tokens, i) ==
    /\ ~Contains(tokens[i], ":") /\ RE_IDENTIFIER(tokens[i])
    /\ i + 1 <= Len(tokens)
    /\ ~Contains(NextToken(tokens, i), ":") /\ looks_like_value(NextToken(tokens, i))

\* lines 202-209 and 224-229: key:value stores under a non-empty key; a token
\* that is neither is a flag or unparsed
token_alone(metrics, tk, kv) ==
    IF Contains(tk, ":")
    THEN IF Strip(kv[1]) # "" THEN SetCoerced(metrics, Strip(kv[1]), Strip(kv[2]))
         ELSE Returned(metrics)
    ELSE SetDefaultAppend(metrics, IF RE_IDENTIFIER(tk) THEN "flags" ELSE "unparsed",
                          Str(tk))

\* lines 199-229 for the token tk; pair: tk and nxt are a key and its value
token_step(metrics, tk, pair, nxt) ==
    IF pair THEN SetCoerced(metrics, tk, nxt)
    ELSE token_alone(metrics, tk, SplitFirst(tk, ":"))

\* the token loop of lines 198-229 from tokens[i] on, after the tokens before
\* it left b
RECURSIVE parse_tokens(_, _, _)
tokens_from(tokens, i, pair, b) ==
    parse_tokens(tokens, IF pair THEN i + 2 ELSE i + 1,
                 token_step(b.d, tokens[i], pair, NextToken(tokens, i)))

parse_tokens(tokens, i, b) ==
    IF b.raised \/ i > Len(tokens) THEN b
    ELSE tokens_from(tokens, i, IsKeyValue(tokens, i), b)

\* line 193: the first token is the congestion-control name
HasCc(tokens) == tokens # <<>> /\ ~Contains(tokens[1], ":") /\ RE_IDENTIFIER(tokens[1])

\* lines 193-197: the leading congestion-control name, then the token loop
parse_metrics_tokens(metrics, tokens) ==
    parse_tokens(IF HasCc(tokens) THEN Tail(tokens) ELSE tokens, 1,
                 Returned(IF HasCc(tokens) THEN DictSet(metrics, "cc", Str(tokens[1]))
                          ELSE metrics))

\* lines 183-197, with the matches ms of RE_PAREN_GROUP in text and the groups
\* parsed from them
parse_metrics_groups(text, ms, groups) ==
    IF groups.raised THEN Raised("raw" :> Str(text))
    ELSE parse_metrics_tokens(
             IF ms # <<>> THEN DictSet("raw" :> Str(text), "groups", Dict(groups.d))
             ELSE "raw" :> Str(text),
             SplitWs(IF ms # <<>> THEN Strip(CutSpans(text, ms, 1)) ELSE text))

\* lines 171-181, with text the joined continuation lines
parse_metrics_text(text, ms) ==
    IF text = "" THEN Returned("raw" :> Str(text))
    ELSE parse_metrics_groups(text, ms, parse_groups(ms, 1, Returned(EmptyDict)))

parse_metrics_joined(text) == parse_metrics_text(text, RE_PAREN_GROUP_finditer(text, 1))

parse_metrics(lines) == parse_metrics_joined(Strip(Join(StripEach(lines), " ")))

\* Python None
None == [t |-> "none"]

\* lines 67-73: "[v6]:port", with d where the digits that end s start
bracket_ip_port(addr_port, s, d) ==
    IF d <= Len(s) /\ d >= 4 /\ SubSeq(s, d - 2, d - 1) = "]:"
    THEN [raw |-> addr_port, ip |-> Str(SubSeq(s, 2, d - 3)),
          port |-> PyInt(SubSeq(s, d, Len(s)))]
    ELSE [raw |-> addr_port, ip |-> None, port |-> None]

\* a variant of colon_ip_port that splits at the first colon (s.split(":", 1))
first_colon_ip_port(addr_port, halves) ==
    [raw |-> addr_port, ip |-> Str(SplitFirst(Strip(addr_port), ":")[1]),
     port |-> IF Digits(SplitFirst(Strip(addr_port), ":")[2])
              THEN PyInt(SplitFirst(Strip(addr_port), ":")[2])
              ELSE Str(SplitFirst(Strip(addr_port), ":")[2])]

\* lines 76-82: "ip:port", with halves = s.rsplit(":", 1)
colon_ip_port(addr_port, halves) ==
    [raw |-> addr_port, ip |-> Str(halves[1]),
     port |-> IF Digits(halves[2])
              THEN PyInt(halves[2]) ELSE Str(halves[2])]

parse_ip_port_stripped(addr_port, s) ==
    IF StartsWith(s, "[")
    THEN bracket_ip_port(addr_port, s, LastNotIn(s, DigitCh) + 1)
    ELSE IF Contains(s, ":") THEN colon_ip_port(addr_port, RSplitFirst(s, ":"))
    ELSE [raw |-> addr_port, ip |-> Str(s), port |-> None]

parse_ip_port(addr_port) == parse_ip_port_stripped(addr_port, Strip(addr_port))

\* blocks with the block under construction flushed into them
Flushed(blocks, has, cur_header, cur_cont) ==
    IF has THEN Append(blocks, [header |-> cur_header, cont |-> cur_cont]) ELSE blocks

\* the loop of lines 33-51 over lines[i..]; has: cur_header is not None
RECURSIVE split_lines_from(_, _, _, _, _, _)
split_lines_from(lines, i, blocks, has, cur_header, cur_cont) ==
    IF i > Len(lines) THEN Flushed(blocks, has, cur_header, cur_cont)
    ELSE IF Strip(lines[i]) = "" \/ StartsWith(LStrip(lines[i]), "State ")
    THEN split_lines_from(lines, i + 1, blocks, has, cur_header, cur_cont)
    ELSE IF Ch(lines[i], 1) \in SpaceCh
    THEN split_lines_from(lines, i + 1,
             IF has THEN blocks
             ELSE Append(blocks, [header |-> "", cont |-> <<Strip(lines[i])>>]),
             has, cur_header,
             IF has THEN Append(cur_cont, Strip(lines[i])) ELSE cur_cont)
    ELSE split_lines_from(lines, i + 1, Flushed(blocks, has, cur_header, cur_cont),
                          TRUE, Strip(lines[i]), <<>>)

split_blocks(ss_output) == split_lines_from(SplitLines(ss_output), 1, <<>>, FALSE, "", <<>>)

\* the first five fields of a header line
HeaderFields(f) == Len(f) >= 5 /\ Digits(f[2]) /\ Digits(f[3])

\* RE_HEADER = ^(\S+)\s+(\d+)\s+(\d+)\s+(\S+)\s+(\S+)(?:\s+(.*))?$ on a stripped
\* line: the first five whitespace-separated fields, the second and third
\* all digits
RE_HEADER(header) == HeaderFields(SplitWs(header))

\* s without its first whitespace-separated field
SkipField(s) == SubSeq(s, FindFrom(s, 1, SpaceCh), Len(s))

\* s without its first n whitespace-separated fields and the space after them
RECURSIVE SkipFields(_, _)
SkipFields(s, n) == IF n = 0 THEN LStrip(s) ELSE SkipFields(SkipField(LStrip(s)), n - 1)

\* a variant of socket_record that takes the endpoints in the other order
socket_record_peer_first(header, cont, f, metrics) ==
    [state   |-> f[1],
     recv_q  |-> PyInt(f[2]),
     send_q  |-> PyInt(f[3]),
     local   |-> parse_ip_port(f[5]),
     peer    |-> parse_ip_port(f[4]),
     process |-> Strip(SkipFields(header, 5)),
     header_raw |-> header,
     metrics |-> metrics,
     cont_lines_raw |-> cont]

\* lines 247-264: the record of a block whose header matched, with f the
\* header's fields and metrics the parsed continuation
socket_record(header, cont, f, metrics) ==
    [state   |-> f[1],
     recv_q  |-> PyInt(f[2]),
     send_q  |-> PyInt(f[3]),
     local   |-> parse_ip_port(f[4]),
     peer    |-> parse_ip_port(f[5]),
     process |-> Strip(SkipFields(header, 5)),
     header_raw |-> header,
     metrics |-> metrics,
     cont_lines_raw |-> cont]

\* lines 239-265 for one block: nothing, a raw record, a socket record, or
\* the exception parse_metrics raised
parse_block(sockets, header, cont, m) ==
    IF header = "" THEN Returned(sockets)
    ELSE IF ~RE_HEADER(header)
    THEN Returned(Append(sockets, [raw_header |-> header, raw_cont |-> cont]))
    ELSE IF m.raised THEN Raised(sockets)
    ELSE Returned(Append(sockets, socket_record(header, cont, SplitWs(header), m.d)))

\* lines 238-265 from blocks[i] on, after the blocks before it left b;
\* parse_metrics runs only for a block whose header matched
RECURSIVE parse_blocks(_, _, _)
parse_blocks(blocks, i, b) ==
    IF b.raised \/ i > Len(blocks) THEN b
    ELSE parse_blocks(blocks, i + 1,
             parse_block(b.d, blocks[i].header, blocks[i].cont,
                 IF blocks[i].header # "" /\ RE_HEADER(blocks[i].header)
                 THEN parse_metrics(blocks[i].cont)
                 ELSE Returned(EmptyDict)))

\* the document parse_ss_tin_output returns for the parsed blocks r
parsed_document(r, utcnow, hostname) ==
    [raised  |-> r.raised,
     meta    |-> [captured_at_utc |-> utcnow, hostname |-> hostname,
                  source_cmd |-> "ss -tin"],
     sockets |-> r.d]

\* utcnow and hostname are what datetime.now(timezone.utc) and
\* socket.gethostname() return when the function runs
parse_ss_tin_output(ss_tin_output, utcnow, hostname) ==
    parsed_document(parse_blocks(split_blocks(ss_tin_output), 1, Returned(<<>>)),
                    utcnow, hostname)

(***************************************************************************)
(* publish_ss_json_http.py: configuration and environment.                 *)
(***************************************************************************)
\* the sweeps a behaviour of the model performs at most
MaxSweeps == 2

\* the write() calls that put one document into its file
DocChunks == 2

\* how many times a parser function is called with one argument
MaxCalls == 2

\* how many fragments an argument of a parser function is made of
MaxFragments == 3

\* the seconds of clock a behaviour of run_batch lasts at most
MaxClock == 3

\* --timeout, seconds
Timeout == 10

\* the rc run_ss_tin_on_host reports for an attempt that timed out
TimeoutRc == 124

\* the characters of stdout an error document keeps
StdoutHeadLen == 2000

\* socket.gethostname() on the machine the collector runs on
Hostname == "h1"

\* a bytes object; Str(s) is a str
Bytes(s) == [t |-> "bytes", s |-> s]

\* `v or ""`, `v or f"timeout after {timeout}s"`
OrElse(v, dflt) == IF v = None \/ v.s = "" THEN Str(dflt) ELSE v

\* texts a host's command can print
OutGood == "State Recv-Q Send-Q\nESTAB 0 0 10.0.0.1:5201 10.0.0.2:51322\n\t cubic rtt:1.9/0.8\n"

OutFlags == "ESTAB 0 0 10.0.0.1:5201 10.0.0.2:51322\n\t cubic flags:1 ecn\n"

OutUsage == "usage: m host cmd\n"

\* what one subprocess.run(cmd, timeout=...) can do: the command exits with a
\* status and its captured text, or TimeoutExpired is raised, whose stdout and
\* stderr are None or the bytes captured so far (bytes also under text=True)
Exit(rc, out, err) == [kind |-> "exit", rc |-> rc, stdout |-> Str(out), stderr |-> Str(err)]

\* left: the processes the command had started that were running at the timeout
TimedOut(out, err) ==
    [kind |-> "timeout", rc |-> TimeoutRc, stdout |-> out, stderr |-> err, left |-> {}]

AllOutcomes ==
    {Exit(0, OutGood, ""), Exit(0, OutUsage, ""), Exit(0, OutFlags, ""),
     Exit(0, "", ""), Exit(1, "", "m: no such host\n"), Exit(1, OutGood, ""),
     Exit(124, "", "timeout after 10s"),
     TimedOut(None, None), TimedOut(Bytes("State"), None),
     [TimedOut(None, None) EXCEPT !.left = {"ss"}]}

SweepOutcomes ==
    {Exit(0, OutGood, ""), Exit(0, OutFlags, ""),
     TimedOut(None, None), TimedOut(Bytes("State"), None)}

\* the invocation variants of lines 75-80, by position
attempts == <<"m host ss -tin", "m host bash -lc 'ss -tin'",
              "m host sh -lc 'ss -tin'", "m host 'ss -tin'">>

looks_like_ss(out) ==
    \/ Contains(out, "State") /\ Contains(out, "Recv-Q") /\ Contains(out, "Send-Q")
    \/ Contains(out, "ESTAB")

\* a variant of Accepted that leaves the content heuristic out
exit_status_only(o) == o.kind = "exit" /\ o.rc = 0

\* an attempt is accepted: line 90
Accepted(o) == o.kind = "exit" /\ o.rc = 0 /\ looks_like_ss(o.stdout.s)

\* last_rc, last_out, last_err after an attempt that is not accepted
AfterAttempt(o) ==
    IF o.kind = "exit"
    THEN [rc |-> o.rc, out |-> OrElse(o.stdout, ""), err |-> OrElse(o.stderr, "")]
    ELSE [rc |-> TimeoutRc, out |-> OrElse(o.stdout, ""),
          err |-> OrElse(o.stderr, "timeout after " \o ToString(Timeout) \o "s")]

\* path.with_suffix(path.suffix + ".tmp")
\* a variant of tmp_path that writes the file in place
write_in_place(path) == path

\* line 104: path.with_suffix(path.suffix + ".tmp")
tmp_path(path) == path \o ".tmp"

host_ok_file(host) == host \o "_ss_tin.json"

host_error_file(host) == host \o "_ss_tin_error.json"

\* s[:n]
Prefix(s, n) == SubSeq(s, 1, IF Len(s) < n THEN Len(s) ELSE n)

\* the branch of line 128
HostOk(r) == r.rc = 0 /\ Strip(r.out.s) # ""

\* lines 131-137: the parsed document with its meta completed
with_host_meta(parsed, host) ==
    [raised  |-> parsed.raised,
     meta    |-> [captured_at_utc |-> parsed.meta.captured_at_utc,
                  hostname |-> parsed.meta.hostname,
                  source_cmd |-> parsed.meta.source_cmd,
                  mininet_host |-> host],
     sockets |-> parsed.sockets]

\* lines 129-137
ok_record(r, host, now) == with_host_meta(parse_ss_tin_output(r.out.s, now, Hostname), host)

\* lines 148-152; json.dumps raises TypeError on a bytes value
error_record(r, host, now) ==
    [raised |-> r.out.t = "bytes" \/ r.err.t = "bytes",
     meta   |-> [captured_at_utc |-> now, mininet_host |-> host, ok |-> FALSE, rc |-> r.rc],
     error  |-> [r.err EXCEPT !.s = Strip(r.err.s)],
     stdout_head |-> [r.out EXCEPT !.s = Prefix(r.out.s, StdoutHeadLen)]]

host_record(r, host, now) ==
    IF HostOk(r) THEN ok_record(r, host, now) ELSE error_record(r, host, now)

\* lines 140, 147
host_file(r, host) == IF HostOk(r) THEN host_ok_file(host) ELSE host_error_file(host)

\* the entry of lines 142-144 and 154-156
index_entry(r, host, now) ==
    IF HostOk(r)
    THEN [host |-> host, file |-> host_file(r, host), ok |-> TRUE, rc |-> r.rc,
          n_sockets |-> Len(ok_record(r, host, now).sockets)]
    ELSE [host |-> host, file |-> host_file(r, host), ok |-> FALSE, rc |-> r.rc,
          n_sockets |-> 0]

index_record(entries, now) ==
    [updated_at_utc |-> now, out_dir |-> "out_dir", hosts |-> entries]

\* the exception that leaves collect_and_write for a host's record: the parser's
\* AttributeError when the command succeeded, json.dumps' TypeError otherwise
host_exception(r) == IF HostOk(r) THEN "AttributeError" ELSE "TypeError"

\* lines 186-189, with e = type(e).__name__
collector_error_record(now, e) ==
    [meta |-> [captured_at_utc |-> now], error |-> "collector exception: " \o e]


(***************************************************************************)
(* The state: the collector thread (start_collector_thread.loop), the      *)
(* output directory, and the publisher's request handlers.                 *)
(***************************************************************************)
VARIABLES
    hosts,      \* the configured host list (main, line 221)
    interval,   \* --interval
    env,        \* the outcomes a command run on a host can have
    pc,         \* where the collector thread is
    sweep,      \* the calls of collect_and_write begun; `now` of the current one
    hostIdx,    \* the host of `for host in hosts` being processed
    att,        \* the variant of `for cmd in attempts` to run next
    last,       \* last_rc, last_out, last_err
    ret,        \* what run_ss_tin_on_host returned for the current host
    index,      \* index["hosts"]
    wr,         \* the atomic_write_text call in progress: path and document
    dir,        \* the output directory: file name -> inode
    ino,        \* inode -> the document and how many of its chunks are written
    rd,         \* the request handlers: position, file requested, open file, response
    exc,        \* the exception that left collect_and_write in this sweep
    tried,      \* history: the outcomes of the attempts run for the current host
    results,    \* history: what run_ss_tin_on_host returned for each host of this sweep
    ps,         \* the processes started for an attempt that are still alive
    batch,      \* the call of run_batch under way: its variables, processes and clock
    arg,        \* a parser function under study and the argument it is given
    calls       \* history: what each call of that function with arg returned

vars == <<hosts, interval, env, pc, sweep, hostIdx, att, last, ret, index, wr,
          dir, ino, rd, exc, tried, results, ps, batch, arg, calls>>

config == <<hosts, interval, env>>

Readers == {"r1"}

\* the names a client asks for
Requests == {"index.json", "hs1_ss_tin.json", "hs1_ss_tin_error.json",
             "index.json.tmp", "missing.json"}

NoWrite == [path |-> "", doc |-> None, kind |-> "none"]

NoRet == [rc |-> 1, out |-> Str(""), err |-> Str("")]

\* no open file
NoFd == <<0, "">>

\* run_batch is not called
NoBatch == [pc |-> "none"]

\* no parser function is called apart from the collector's own calls
NoCall == [fn |-> "main", s |-> ""]

Idle == [pc |-> "idle", name |-> "", fd |-> NoFd, was |-> None, resp |-> None]

Range(f) == {f[k] : k \in DOMAIN f}

\* the inodes still linked in the directory or held open by a handler
Reclaim(inodes, d, handlers) ==
    LET keep == Range(d) \cup {handlers[r].fd : r \in DOMAIN handlers}
    IN  [k \in (DOMAIN inodes) \cap keep |-> inodes[k]]

InitWith(hs, ivs, outcomes) ==
    /\ hosts = hs
    /\ interval \in ivs
    /\ env = outcomes
    /\ pc = "start"
    /\ sweep = 0
    /\ hostIdx = 1
    /\ att = 1
    /\ last = NoRet
    /\ ret = NoRet
    /\ index = <<>>
    /\ wr = NoWrite
    /\ dir = <<>>
    /\ ino = <<>>
    /\ rd = [r \in Readers |-> Idle]
    /\ exc = "none"
    /\ tried = <<>>
    /\ results = <<>>
    /\ ps = {}
    /\ calls = <<>>

(***************************************************************************)
(* collect_and_write, lines 116-122: a sweep begins.                       *)
(***************************************************************************)
\* a variant of BeginSweep that keeps the entries of the sweep before
BeginSweepKeepingIndex ==
    /\ sweep' = sweep + 1
    /\ index' = index
    /\ hostIdx' = 1
    /\ att' = 1
    /\ last' = NoRet
    /\ exc' = "none"
    /\ tried' = <<>>
    /\ results' = <<>>
    /\ pc' = "run"
    /\ UNCHANGED <<config, arg, batch, ps, calls, ret, wr, dir, ino, rd>>

BeginSweep ==
    /\ sweep' = sweep + 1
    /\ index' = <<>>
    /\ hostIdx' = 1
    /\ att' = 1
    /\ last' = NoRet
    /\ exc' = "none"
    /\ tried' = <<>>
    /\ results' = <<>>
    /\ pc' = "run"
    /\ UNCHANGED <<config, arg, batch, ps, calls, ret, wr, dir, ino, rd>>

\* loop, line 175: the thread's first collection
FirstCollect ==
    /\ pc = "start"
    /\ BeginSweep

\* loop, lines 180-183: sleep, then collect again
SleepThenCollect ==
    /\ pc = "sleep"
    /\ sweep < MaxSweeps
    /\ BeginSweep

(***************************************************************************)
(* run_ss_tin_on_host, lines 83-99: one pass of `for cmd in attempts`, and *)
(* the return that follows an accepted attempt or the last variant.        *)
(***************************************************************************)
\* line 85 when the timeout expires: subprocess.run kills the process it
\* started, the wrapper m, and waits for it; procs are the processes of the
\* command running then
process_kill(procs) == {p \in procs : p.proc # "m"}

Attempt(o) ==
    /\ pc = "run"
    /\ ps' = IF o.kind = "timeout"
             THEN ps \cup process_kill({[cmd |-> attempts[att], proc |-> p] :
                                           p \in {"m"} \cup o.left})
             ELSE ps
    /\ tried' = Append(tried, [cmd |-> attempts[att], outcome |-> o])
    /\ IF Accepted(o)
       THEN /\ ret' = [rc |-> o.rc, out |-> OrElse(o.stdout, ""), err |-> OrElse(o.stderr, "")]
            /\ pc' = "record"
            /\ UNCHANGED <<last, att>>
       ELSE /\ last' = AfterAttempt(o)
            /\ IF att < Len(attempts)
               THEN /\ att' = att + 1
                    /\ UNCHANGED <<ret, pc>>
               ELSE /\ ret' = AfterAttempt(o)
                    /\ pc' = "record"
                    /\ UNCHANGED att
    /\ results' = IF pc' = "record" THEN Append(results, ret') ELSE results
    /\ UNCHANGED <<config, arg, batch, calls, sweep, hostIdx, index, wr, dir, ino, rd, exc>>

(***************************************************************************)
(* An exception leaves collect_and_write.  The first collection (line 175) *)
(* is outside any try: the thread ends.  A later one is caught at line     *)
(* 184, and collector_error.json is written.  An exception in that write   *)
(* leaves the handler and ends the thread.                                 *)
(***************************************************************************)
Raise(e) ==
    /\ exc' = e
    /\ IF sweep = 1 \/ wr.kind = "collerr"
       THEN /\ pc' = "dead"
            /\ wr' = NoWrite
       ELSE /\ pc' = "open"
            /\ wr' = [path |-> "collector_error.json",
                      doc  |-> collector_error_record(sweep, e), kind |-> "collerr"]

(***************************************************************************)
(* collect_and_write, lines 127-153: the host's record is built and        *)
(* serialized; atomic_write_text is entered with it.                       *)
(***************************************************************************)
StartHostWrite(rec, path, e) ==
    IF rec.raised
    THEN Raise(e)
    ELSE /\ pc' = "open"
         /\ wr' = [path |-> path, doc |-> rec, kind |-> "host"]
         /\ UNCHANGED exc

HostRecord ==
    /\ pc = "record"
    /\ StartHostWrite(host_record(ret, hosts[hostIdx], sweep), host_file(ret, hosts[hostIdx]),
                      host_exception(ret))
    /\ UNCHANGED <<config, arg, batch, ps, calls, sweep, hostIdx, att, last, ret, index, dir, ino, rd,
                   tried, results>>

(***************************************************************************)
(* atomic_write_text, line 105: tmp.write_text opens the temporary file    *)
(* (creating it, or truncating the one a failed write left), writes the    *)
(* content and closes it.  A write can fail (OSError).                     *)
(***************************************************************************)
OpenTmp ==
    /\ pc = "open"
    /\ LET tmp == tmp_path(wr.path)
       IN  IF tmp \in DOMAIN dir
           THEN /\ ino' = [ino EXCEPT ![dir[tmp]] = [doc |-> wr.doc, len |-> 0]]
                /\ dir' = dir
           ELSE /\ dir' = DictSet(dir, tmp, <<sweep, wr.path>>)
                /\ ino' = DictSet(ino, <<sweep, wr.path>>, [doc |-> wr.doc, len |-> 0])
    /\ pc' = "write"
    /\ UNCHANGED <<config, arg, batch, ps, calls, sweep, hostIdx, att, last, ret, index, wr, rd, exc, tried,
                   results>>

WriteChunk ==
    /\ pc = "write"
    /\ LET f == dir[tmp_path(wr.path)]
       IN  /\ ino' = [ino EXCEPT ![f].len = @ + 1]
           /\ pc' = IF ino[f].len + 1 = DocChunks THEN "rename" ELSE "write"
    /\ UNCHANGED <<config, arg, batch, ps, calls, sweep, hostIdx, att, last, ret, index, wr, dir, rd, exc,
                   tried, results>>

WriteFail ==
    /\ pc = "write"
    /\ Raise("OSError")
    /\ UNCHANGED <<config, arg, batch, ps, calls, sweep, hostIdx, att, last, ret, index, dir, ino, rd,
                   tried, results>>

(***************************************************************************)
(* atomic_write_text, line 106: tmp.replace(path), and what the caller     *)
(* does on return: the host's index entry and the next host (lines 142,    *)
(* 154, 124), the index write after the last host (line 158), the end of   *)
(* the collection (lines 159, 177-181).                                    *)
(***************************************************************************)
\* a variant of Replace that also unlinks the other documents of the same
\* host, those whose names begin as wr.path does
ReplaceUnlinkingOthers ==
    LET tmp  == tmp_path(wr.path)
        same == {n \in DOMAIN dir : SubSeq(n, 1, 3) = SubSeq(wr.path, 1, 3)}
        d2   == [n \in ((DOMAIN dir) \ same) \cup {wr.path} |->
                    IF n = wr.path THEN dir[tmp] ELSE dir[n]]
    IN  /\ dir' = d2
        /\ ino' = Reclaim(ino, d2, rd)

Replace ==
    LET tmp == tmp_path(wr.path)
        d2  == [n \in ((DOMAIN dir) \ {tmp}) \cup {wr.path} |->
                   IF n = wr.path THEN dir[tmp] ELSE dir[n]]
    IN  /\ dir' = d2
        /\ ino' = Reclaim(ino, d2, rd)

\* a variant of AfterCollect that ignores --interval
always_sleep == "sleep"

\* lines 177-181: where the loop goes after a collection
AfterCollect == IF sweep = 1 /\ interval <= 0 THEN "done" ELSE "sleep"

RenameHost ==
    /\ pc = "rename"
    /\ wr.kind = "host"
    /\ Replace
    /\ index' = Append(index, index_entry(ret, hosts[hostIdx], sweep))
    /\ IF hostIdx < Len(hosts)
       THEN /\ hostIdx' = hostIdx + 1
            /\ att' = 1
            /\ last' = NoRet
            /\ tried' = <<>>
            /\ pc' = "run"
            /\ wr' = NoWrite
       ELSE /\ pc' = "open"
            /\ wr' = [path |-> "index.json", doc |-> index_record(index', sweep),
                      kind |-> "index"]
            /\ UNCHANGED <<hostIdx, att, last, tried>>
    /\ UNCHANGED <<config, arg, batch, ps, calls, sweep, ret, rd, exc, results>>

RenameIndex ==
    /\ pc = "rename"
    /\ wr.kind = "index"
    /\ Replace
    /\ pc' = AfterCollect
    /\ wr' = NoWrite
    /\ UNCHANGED <<config, arg, batch, ps, calls, sweep, hostIdx, att, last, ret, index, rd, exc, tried, results>>

RenameCollectorError ==
    /\ pc = "rename"
    /\ wr.kind = "collerr"
    /\ Replace
    /\ pc' = "sleep"
    /\ wr' = NoWrite
    /\ UNCHANGED <<config, arg, batch, ps, calls, sweep, hostIdx, att, last, ret, index, rd, exc, tried, results>>

(***************************************************************************)
(* serve_directory: a handler thread of ThreadingHTTPServer answers GET    *)
(* /name from the directory: it opens the file (404 when that fails), then *)
(* copies what the open file holds to the client.                          *)
(***************************************************************************)
\* what the directory holds under a name: the file's content, or None
Content(d, inodes, name) == IF name \in DOMAIN d THEN inodes[d[name]] ELSE None

\* was: history, what the directory held under the name when the request came
Get(r, name) ==
    /\ rd[r].pc = "idle"
    /\ rd' = [rd EXCEPT ![r] =
                IF name \in DOMAIN dir
                THEN [pc |-> "open", name |-> name, fd |-> dir[name],
                      was |-> Content(dir, ino, name), resp |-> None]
                ELSE [pc |-> "done", name |-> name, fd |-> NoFd,
                      was |-> Content(dir, ino, name), resp |-> [status |-> 404]]]
    /\ UNCHANGED <<config, arg, batch, ps, calls, pc, sweep, hostIdx, att, last, ret, index, wr, dir, ino,
                   exc, tried, results>>

\* a variant of Read that opens the file again by its name
ReadByName(r) ==
    /\ rd[r].pc = "open"
    /\ rd' = [rd EXCEPT ![r].pc = "done", ![r].fd = NoFd,
                        ![r].resp = [status |-> 200,
                                     body |-> Content(dir, ino, rd[r].name)]]
    /\ ino' = Reclaim(ino, dir, rd')
    /\ UNCHANGED <<config, arg, batch, ps, calls, pc, sweep, hostIdx, att, last, ret, index, wr, dir,
                   exc, tried, results>>

Read(r) ==
    /\ rd[r].pc = "open"
    /\ rd' = [rd EXCEPT ![r].pc = "done", ![r].fd = NoFd,
                        ![r].resp = [status |-> 200, body |-> ino[rd[r].fd]]]
    /\ ino' = Reclaim(ino, dir, rd')
    /\ UNCHANGED <<config, arg, batch, ps, calls, pc, sweep, hostIdx, att, last, ret, index, wr, dir,
                   exc, tried, results>>

Finish(r) ==
    /\ rd[r].pc = "done"
    /\ rd' = [rd EXCEPT ![r] = Idle]
    /\ UNCHANGED <<config, arg, batch, ps, calls, pc, sweep, hostIdx, att, last, ret, index, wr, dir, ino,
                   exc, tried, results>>

\* the collector thread when --interval is 0: one call of collect_and_write
CollectOnce ==
    \/ FirstCollect
    \/ \E o \in env : Attempt(o)
    \/ HostRecord
    \/ OpenTmp
    \/ WriteChunk
    \/ WriteFail
    \/ RenameHost
    \/ RenameIndex

\* the collector thread
Collector ==
    \/ CollectOnce
    \/ SleepThenCollect
    \/ RenameCollectorError

\* the request handlers of the HTTP server
Publisher ==
    \/ \E r \in Readers, name \in Requests : Get(r, name)
    \/ \E r \in Readers : Read(r)
    \/ \E r \in Readers : Finish(r)

(***************************************************************************)
(* parse_ss_tin_output.py called directly: a function of the parser is     *)
(* given the argument arg.s, up to MaxCalls times, and what each call      *)
(* returns is recorded.                                                    *)
(***************************************************************************)
\* the texts made of at most n of the fragments frags
RECURSIVE Texts(_, _)
Texts(frags, n) ==
    IF n = 0 THEN {""}
    ELSE {t \o f : t \in Texts(frags, n - 1), f \in frags \cup {""}}

\* the fragments the arguments of each function are made of: raw values,
\* endpoint tokens, the tokens of a continuation line, and the lines of the
\* text `ss -tin` prints
Fragments ==
    [coerce_value |-> {"1.929", "0.888", "/", ",", "12", "58207107640", "bps", " ", "(", "-"},
     parse_ip_port |-> {"[2001:db8::1]", "[", "]", ":", "22", "*", "10.0.0.1", "::1", "h"},
     parse_metrics |-> {" cubic", " rtt:1.9/0.8", " :5", " flags:1", " ecn", " send", " 10bps",
                        " %%", " groups:5", " bbr:(bw:100bps,mrtt:1.2)",
                        " bbr:(items:1,ack)"},
     split_blocks |-> {"State Recv-Q Send-Q\n", "ESTAB 0 0 10.0.0.1:5201 10.0.0.2:51322\n",
                       "LISTEN 0 5 *:22 *:*\n", "\t cubic rtt:1.9/0.8\n", "\t State x\n",
                       "  ecn\n", "\n"},
     parse_ss_tin_output |-> {"ESTAB 0 0 10.0.0.1:5201 10.0.0.2:51322\n",
                              "LISTEN 0 128 [::1]:22 *:* users:(sshd) 7\n",
                              "ESTAB 0 10.0.0.1:5201\n", "\t cubic rtt:1.9/0.8\n",
                              "\t flags:1 ecn\n"}]

\* split_blocks(arg.s)
call_split_blocks ==
    /\ arg.fn = "split_blocks" /\ Len(calls) < MaxCalls
    /\ calls' = Append(calls, split_blocks(arg.s))
    /\ UNCHANGED <<config, arg, batch, ps, pc, sweep, hostIdx, att, last, ret, index, wr, dir, ino,
                   rd, exc, tried, results>>

\* coerce_value(arg.s)
call_coerce_value ==
    /\ arg.fn = "coerce_value" /\ Len(calls) < MaxCalls
    /\ calls' = Append(calls, coerce_value(arg.s))
    /\ UNCHANGED <<config, arg, batch, ps, pc, sweep, hostIdx, att, last, ret, index, wr, dir, ino,
                   rd, exc, tried, results>>

\* parse_ip_port(arg.s)
call_parse_ip_port ==
    /\ arg.fn = "parse_ip_port" /\ Len(calls) < MaxCalls
    /\ calls' = Append(calls, parse_ip_port(arg.s))
    /\ UNCHANGED <<config, arg, batch, ps, pc, sweep, hostIdx, att, last, ret, index, wr, dir, ino,
                   rd, exc, tried, results>>

\* parse_metrics([arg.s]): the continuation lines are the one line arg.s
call_parse_metrics ==
    /\ arg.fn = "parse_metrics" /\ Len(calls) < MaxCalls
    /\ calls' = Append(calls, parse_metrics(<<arg.s>>))
    /\ UNCHANGED <<config, arg, batch, ps, pc, sweep, hostIdx, att, last, ret, index, wr, dir, ino,
                   rd, exc, tried, results>>

\* parse_ss_tin_output(arg.s): the blocks are parsed (lines 234-265), then the
\* document is built with the clock read at line 269, which has not gone back
\* since the call before and may or may not have advanced
call_parse_ss_tin_output ==
    /\ arg.fn = "parse_ss_tin_output" /\ Len(calls) < MaxCalls
    /\ LET r == parse_blocks(split_blocks(arg.s), 1, Returned(<<>>))
       IN  \E utcnow \in Len(calls)..(Len(calls) + 1) :
               calls' = Append(calls, parsed_document(r, utcnow, Hostname))
    /\ UNCHANGED <<config, arg, batch, ps, pc, sweep, hostIdx, att, last, ret, index, wr, dir, ino,
                   rd, exc, tried, results>>

(***************************************************************************)
(* experiments/FCT_BDP/run_test.py, run_batch: the hosts of a batch are    *)
(* launched, then polled until each has finished or was killed at its      *)
(* deadline.  batch holds the call's local variables, the processes and    *)
(* the clock time.time() reads.                                            *)
(***************************************************************************)
\* run_batch is entered: lines 61-63
run_batch(host_ids, timeout_s) ==
    [pc |-> "launch", host_ids |-> host_ids, timeout_s |-> timeout_s, procs |-> <<>>,
     deadlines |-> <<>>, alive |-> {}, failures |-> 0, now |-> 0, timed_out |-> <<>>,
     clock |-> 0]

\* lines 65-99: Popen of the next host in a session of its own, its deadline;
\* after the last host, failures and alive
Launch ==
    /\ batch.pc = "launch"
    /\ batch' = [batch EXCEPT
                   !.procs = Append(@, [st |-> "running", rc |-> 0, sigkill |-> FALSE]),
                   !.deadlines = Append(@, batch.clock + batch.timeout_s),
                   !.alive = IF Len(batch.procs) + 1 = Len(batch.host_ids)
                             THEN Range(batch.host_ids) ELSE @,
                   !.pc = IF Len(batch.procs) + 1 = Len(batch.host_ids)
                          THEN "poll" ELSE "launch"]
    /\ UNCHANGED <<config, arg, ps, calls, pc, sweep, hostIdx, att, last, ret, index, wr, dir,
                   ino, rd, exc, tried, results>>

\* time passes
Elapse ==
    /\ batch.pc \in {"launch", "poll", "kill", "sleep"}
    /\ batch.clock < MaxClock
    /\ batch' = [batch EXCEPT !.clock = @ + 1]
    /\ UNCHANGED <<config, arg, ps, calls, pc, sweep, hostIdx, att, last, ret, index, wr, dir,
                   ino, rd, exc, tried, results>>

\* the iperf3 client of host i ends by itself, with exit status rc
ProcessExits(i, rc) ==
    /\ batch.pc \in {"launch", "poll", "kill", "sleep"}
    /\ i \in DOMAIN batch.procs
    /\ batch.procs[i].st = "running"
    /\ batch' = [batch EXCEPT !.procs[i].st = "exited", !.procs[i].rc = rc]
    /\ UNCHANGED <<config, arg, ps, calls, pc, sweep, hostIdx, att, last, ret, index, wr, dir,
                   ino, rd, exc, tried, results>>

\* a variant of Poll that looks at the deadline before it polls the process
PollDeadlineFirst ==
    /\ batch.pc = "poll"
    /\ LET late     == {i \in batch.alive : batch.clock >= batch.deadlines[i]}
           finished == {i \in batch.alive \ late : batch.procs[i].st = "exited"}
       IN  batch' = [batch EXCEPT
                       !.now = batch.clock,
                       !.timed_out = SelectSeq(batch.host_ids, LAMBDA i : i \in late),
                       !.alive = @ \ finished,
                       !.failures = @ + Cardinality({i \in finished : batch.procs[i].rc # 0}),
                       !.pc = IF late # {} THEN "kill" ELSE "sleep"]
    /\ UNCHANGED <<config, arg, ps, calls, pc, sweep, hostIdx, att, last, ret, index, wr, dir,
                   ino, rd, exc, tried, results>>

\* lines 102-122: one pass of `while alive`: now, the poll of every alive
\* process, and the finished ones taken off alive and counted when rc != 0
Poll ==
    /\ batch.pc = "poll"
    /\ LET finished == {i \in batch.alive : batch.procs[i].st = "exited"}
           late     == {i \in batch.alive \ finished : batch.clock >= batch.deadlines[i]}
       IN  batch' = [batch EXCEPT
                       !.now = batch.clock,
                       !.timed_out = SelectSeq(batch.host_ids, LAMBDA i : i \in late),
                       !.alive = @ \ finished,
                       !.failures = @ + Cardinality({i \in finished : batch.procs[i].rc # 0}),
                       !.pc = IF late # {} THEN "kill" ELSE "sleep"]
    /\ UNCHANGED <<config, arg, ps, calls, pc, sweep, hostIdx, att, last, ret, index, wr, dir,
                   ino, rd, exc, tried, results>>

\* lines 124-138 for the next host of timed_out: it is taken off alive and
\* counted, SIGKILL is sent to its process group, and the process is waited
\* for.  killpg can raise PermissionError (a group owned by another user),
\* which leaves run_batch.
KillGroup(e) ==
    /\ batch.pc = "kill"
    /\ LET i == Head(batch.timed_out)
       IN  batch' = [batch EXCEPT
                       !.alive = @ \ {i},
                       !.failures = @ + 1,
                       !.timed_out = Tail(@),
                       !.procs[i] = IF e = "PermissionError" THEN @
                                    ELSE [st |-> IF @.st = "running" THEN "killed" ELSE @.st,
                                          rc |-> @.rc, sigkill |-> TRUE],
                       !.pc = IF e = "PermissionError" THEN "raised"
                              ELSE IF Tail(batch.timed_out) # <<>> THEN "kill" ELSE "sleep"]
    /\ UNCHANGED <<config, arg, ps, calls, pc, sweep, hostIdx, att, last, ret, index, wr, dir,
                   ino, rd, exc, tried, results>>

\* lines 140, 101 and 143-149: the sleep that ends a pass, then the next
\* pass, or the return of failures when no process is alive
SleepOrReturn ==
    /\ batch.pc = "sleep"
    /\ batch' = [batch EXCEPT !.pc = IF batch.alive # {} THEN "poll" ELSE "returned"]
    /\ UNCHANGED <<config, arg, ps, calls, pc, sweep, hostIdx, att, last, ret, index, wr, dir,
                   ino, rd, exc, tried, results>>

\* what a host answers while a client reads
PubOutcomes == {Exit(0, OutGood, ""), Exit(1, "", "m: no such host\n")}

\* two hosts, the collector alone
Init == InitWith(<<"hs1", "hs2">>, {0, 1}, SweepOutcomes) /\ arg = NoCall /\ batch = NoBatch

Next == Collector

Spec == Init /\ [][Next]_vars

\* one host, every outcome of every attempt, --interval 0
InitRun == InitWith(<<"hs1">>, {0}, AllOutcomes) /\ arg = NoCall /\ batch = NoBatch

NextRun == CollectOnce

SpecRun == InitRun /\ [][NextRun]_vars

\* one host, the collector and the publisher side by side
InitPub == InitWith(<<"hs1">>, {0, 1}, PubOutcomes) /\ arg = NoCall /\ batch = NoBatch

NextPub == Collector \/ Publisher

SpecPub == InitPub /\ [][NextPub]_vars

\* the parser alone: one of its functions, every argument made of at most
\* MaxFragments fragments
InitParse ==
    /\ InitWith(<<>>, {0}, {})
    /\ batch = NoBatch
    /\ \E fn \in DOMAIN Fragments :
          arg \in {[fn |-> fn, s |-> t] : t \in Texts(Fragments[fn], MaxFragments)}

NextParse ==
    \/ call_split_blocks
    \/ call_coerce_value
    \/ call_parse_ip_port
    \/ call_parse_metrics
    \/ call_parse_ss_tin_output

SpecParse == InitParse /\ [][NextParse]_vars

\* run_batch alone: a batch of two hosts, --timeout of one or two seconds
InitBatch ==
    /\ InitWith(<<>>, {0}, {})
    /\ arg = NoCall
    /\ batch \in {run_batch(<<1, 2>>, timeout_s) : timeout_s \in {1, 2}}

NextBatch ==
    \/ Launch
    \/ Elapse
    \/ \E i \in 1..2, rc \in {0, 1} : ProcessExits(i, rc)
    \/ Poll
    \/ \E e \in {"none", "PermissionError"} : KillGroup(e)
    \/ SleepOrReturn

SpecBatch == InitBatch /\ [][NextBatch]_vars

(***************************************************************************)
(* Properties.                                                             *)
(***************************************************************************)
\* a name files are renamed to, not one they are written under
FinalName(name) == ~EndsWith(name, ".tmp")

Names(d) == {n \in DOMAIN d : FinalName(n)}

Complete(f) == f.len = DocChunks

\* every file under a final name, every such file a handler holds open and
\* every body sent for one is a complete document
C1_Complete ==
    /\ \A n \in Names(dir) : Complete(ino[dir[n]])
    /\ \A r \in Readers :
          /\ rd[r].pc = "open" /\ FinalName(rd[r].name) => Complete(ino[rd[r].fd])
          /\ rd[r].pc = "done" /\ FinalName(rd[r].name) /\ rd[r].resp.status = 200
                => Complete(rd[r].resp.body)

\* a step that changes what a final name holds is the rename of the write in
\* progress, and puts the complete new document there
C1_OnlyRename ==
    \A n \in Names(dir) \cup Names(dir') :
        Content(dir', ino', n) # Content(dir, ino, n)
        => /\ pc = "rename"
           /\ wr.path = n
           /\ Content(dir', ino', n) = [doc |-> wr.doc, len |-> DocChunks]

\* C1: a reader of a final name sees a complete document at every
\* interleaving with atomic_write_text, never a partial one, and what a final
\* name holds changes only at the rename
C1_AtomicWrite == [](C1_Complete) /\ [][C1_OnlyRename]_vars

\* C1: a handler has answered index.json with 200 while the collector is in
\* the middle of writing the next index.json
C1_Witness ==
    \E r \in Readers :
        /\ rd[r].pc = "done" /\ rd[r].name = "index.json" /\ rd[r].resp.status = 200
        /\ pc = "write" /\ wr.path = "index.json"
        /\ ino[dir[tmp_path("index.json")]].len = 1

\* the run of a host ended in a timeout
TimedOutRun(r) == r.rc = TimeoutRc

\* C2: every host of a sweep gets its index entry and its file; in particular
\* a host that timed out gets its error document, so building and serializing
\* its record raises nothing (no TypeError leaves the sweep)
C2_TimedOutHostGetsEntry ==
    \A i \in DOMAIN results : TimedOutRun(results[i]) => exc # "TypeError"

\* the acceptance the specification states: exit status 0 and the heuristic
MeetsHeuristic(o) ==
    /\ o.kind = "exit" /\ o.rc = 0
    /\ \/ Contains(o.stdout.s, "State") /\ Contains(o.stdout.s, "Recv-Q")
          /\ Contains(o.stdout.s, "Send-Q")
       \/ Contains(o.stdout.s, "ESTAB")

\* C3: a host's index entry has ok TRUE only if one of its attempts was
\* accepted (one host: tried holds the attempts of the entry's host)
C3_OkOnlyIfAccepted ==
    \A i \in DOMAIN index :
        index[i].ok => \E k \in DOMAIN tried : MeetsHeuristic(tried[k].outcome)

\* what run_ss_tin_on_host returns for an attempt's outcome
ResultOf(o) == [rc |-> o.rc, out |-> o.stdout, err |-> o.stderr]

C5_TimeoutDistinct ==
    pc = "open" /\ wr.kind = "host" /\ wr.path = host_error_file(hosts[hostIdx])
    => (wr.doc.meta.rc = TimeoutRc <=> tried[Len(tried)].outcome.kind = "timeout")

\* C6: a host's failure does not end the sweep: an exception leaves
\* collect_and_write only when every host has its entry
C6_FailureIsolated == exc # "none" => Len(index) = Len(hosts)

\* C7: with a positive interval the collector thread never ends
C7_LoopSurvives == interval > 0 => pc # "dead"

\* where the loop may be, by the interval: with 0 one collection and no sleep,
\* and while the thread has returned the handlers still take requests
C8_OneSweep ==
    /\ interval = 0 => sweep <= 1 /\ pc # "sleep"
    /\ pc = "done" => interval = 0 /\ sweep = 1 /\ "index.json" \in DOMAIN dir
    /\ pc = "done" => \A r \in Readers : rd[r].pc = "idle" => ENABLED Get(r, "index.json")

\* a collection that wrote its index is followed by the return (interval 0) or
\* the sleep (interval positive), and the sleep by the next collection
C8_Loop ==
    /\ pc = "rename" /\ wr.kind = "index" /\ pc' # pc
          => pc' = IF interval > 0 THEN "sleep" ELSE "done"
    /\ pc = "sleep" /\ pc' # pc => sweep' = sweep + 1 /\ pc' = "run"
    /\ sweep' # sweep => pc \in {"start", "sleep"}

FullIndex(doc) ==
    /\ Len(doc.hosts) = Len(hosts)
    /\ \A i \in DOMAIN hosts : doc.hosts[i].host = hosts[i]

\* C9: the index is rebuilt in every sweep (its entries are those of the hosts
\* run in this sweep, in order) and is written, under its temporary and its
\* final name, only as the full document made after the last host was run
C9_IndexRebuilt ==
    /\ Len(index) <= Len(results) /\ Len(results) <= Len(hosts)
    /\ \A i \in DOMAIN index :
          /\ index[i].host = hosts[i]
          /\ index[i].rc = results[i].rc
    /\ wr.kind = "index" =>
          /\ Len(results) = Len(hosts)
          /\ wr.doc = index_record(index, sweep)
          /\ FullIndex(wr.doc)
    /\ \A n \in {"index.json", tmp_path("index.json")} :
          n \in DOMAIN dir =>
             /\ FullIndex(ino[dir[n]].doc)
             /\ ino[dir[n]].doc.updated_at_utc <= sweep

\* C9: the second sweep has put its index in place: the first host failed, the
\* second succeeded
C9_Witness ==
    /\ sweep = 2 /\ pc = "sleep"
    /\ "index.json" \in DOMAIN dir
    /\ ino[dir["index.json"]].doc.updated_at_utc = 2
    /\ ~ino[dir["index.json"]].doc.hosts[1].ok
    /\ ino[dir["index.json"]].doc.hosts[2].ok

\* C10: a handler takes a request whatever the collector is doing; the answer
\* is 404 exactly when the directory had no such file when the request came,
\* and for a final name the body is what the directory held then
C10_AnsweredFromDirectory ==
    \A r \in Readers :
        /\ rd[r].pc = "idle" => \A n \in Requests : ENABLED Get(r, n)
        /\ rd[r].pc = "open" => ENABLED Read(r)
        /\ rd[r].pc = "done" =>
              /\ rd[r].resp.status = 404 <=> rd[r].was = None
              /\ rd[r].resp.status # 404 =>
                    /\ rd[r].resp.status = 200
                    /\ FinalName(rd[r].name) => rd[r].resp.body = rd[r].was

\* C10: index.json was asked for during the first sweep's writes and answered
\* with 404
C10_Witness ==
    \E r \in Readers :
        /\ rd[r].pc = "done" /\ rd[r].name = "index.json"
        /\ rd[r].resp.status = 404
        /\ sweep = 1 /\ pc = "write"

(***************************************************************************)
(* Properties of the parser, under SpecParse.                              *)
(***************************************************************************)
\* the record of a block whose header does not have the five-field shape
RawRecord(block) == [raw_header |-> block.header, raw_cont |-> block.cont]

\* what the k-th call of parse_ss_tin_output returned has one record for each
\* block of the splitter, a raw one for each block whose header does not match
RecordPerBlock(doc, blocks) ==
    /\ Len(doc.sockets) = Len(blocks)
    /\ \A i \in DOMAIN blocks :
          ~RE_HEADER(blocks[i].header) => doc.sockets[i] = RawRecord(blocks[i])

\* C11: parse_ss_tin_output does not raise on a block whose header does not
\* match the five-field shape (an exception needs a block whose header
\* matches); such a block is in sockets as a raw record; and sockets has as
\* many records as split_blocks returned blocks
C11_RecordPerBlock ==
    arg.fn = "parse_ss_tin_output" =>
        \A k \in DOMAIN calls :
            IF calls[k].raised
            THEN \E i \in DOMAIN split_blocks(arg.s) : RE_HEADER(split_blocks(arg.s)[i].header)
            ELSE RecordPerBlock(calls[k], split_blocks(arg.s))

\* C12: a continuation line with no header line before it is in the parsed
\* output, as a record that holds the line and nothing else
C12_StrayLineKept ==
    arg.fn = "parse_ss_tin_output" =>
        \A k \in DOMAIN calls : ~calls[k].raised =>
            \A i \in DOMAIN split_blocks(arg.s) :
                split_blocks(arg.s)[i].header = "" =>
                    \E j \in DOMAIN calls[k].sockets :
                        calls[k].sockets[j] = RawRecord(split_blocks(arg.s)[i])

\* C13: parse_metrics raises nothing, whatever tokens the continuation text
\* holds and in whatever order
C13_MetricsNeverRaise ==
    arg.fn = "parse_metrics" => \A k \in DOMAIN calls : ~calls[k].raised

\* the tokens of the joined text that are left once the groups are removed and
\* the congestion-control name is consumed (lines 186-195)
TokensLeft(tokens) == IF HasCc(tokens) THEN Tail(tokens) ELSE tokens

RemainingTokens(text) == TokensLeft(SplitWs(Strip(RE_PAREN_GROUP_sub(Strip(text)))))

\* the token is an item of the list metrics[k]
InList(metrics, k, token) ==
    /\ k \in DOMAIN metrics
    /\ metrics[k].t = "list"
    /\ \E j \in DOMAIN metrics[k].items : metrics[k].items[j] = Str(token)

\* tokens[i] is in metrics: as the value of its key, as the key or the value
\* of a `key value` pair, as a flag or as an unparsed token
Retained(metrics, tokens, i) ==
    \/ /\ Contains(tokens[i], ":")
       /\ Strip(SplitFirst(tokens[i], ":")[1]) \in DOMAIN metrics
    \/ /\ ~Contains(tokens[i], ":")
       /\ tokens[i] \in DOMAIN metrics
    \/ /\ i > 1
       /\ tokens[i - 1] \in DOMAIN metrics
       /\ metrics[tokens[i - 1]] = coerce_value(tokens[i])
    \/ InList(metrics, "flags", tokens[i])
    \/ InList(metrics, "unparsed", tokens[i])

\* C14: every token left after group removal and the congestion-control name
\* is retained in what parse_metrics returns; none is dropped
C14_EveryTokenRetained ==
    arg.fn = "parse_metrics" =>
        \A k \in DOMAIN calls : ~calls[k].raised =>
            \A i \in DOMAIN RemainingTokens(arg.s) :
                Retained(calls[k].d, RemainingTokens(arg.s), i)

\* C15: two calls of parse_ss_tin_output with the same text return the same
\* document, whenever each of them runs
C15_SameTextSameOutput ==
    arg.fn = "parse_ss_tin_output" =>
        \A j \in DOMAIN calls, k \in DOMAIN calls : calls[j] = calls[k]

\* an integer or a float
IsNumber(v) ==
    \/ v.t = "int" /\ RE_INT(v.v)
    \/ v.t = "float" /\ RE_FLOAT(v.v)

\* v has one of the shapes of a coerced value
Shaped(v) ==
    \/ IsNumber(v)
    \/ v.t = "str" /\ DOMAIN v = {"t", "s"}
    \/ v.t = "pair" /\ IsNumber(v.a) /\ IsNumber(v.b)
    \/ /\ v.t = "list"
       /\ \/ \A i \in DOMAIN v.items : IsNumber(v.items[i])
          \/ \A i \in DOMAIN v.items : v.items[i].t = "str"
    \/ v.t = "qty" /\ IsNumber(v.value) /\ AllIn(v.unit, UnitCh) /\ v.unit # ""

FirstMatchingRule(raw) == coerce_stripped(raw, SplitFirst(raw, "/"))

\* C17: coerce_value returns, for every raw value string, what the first
\* matching rule of the six gives for it; a string that matches none of the
\* first five is returned unchanged
C17_FirstMatchingRule ==
    arg.fn = "coerce_value" =>
        \A k \in DOMAIN calls : calls[k] = FirstMatchingRule(arg.s)

\* the occurrences of name:(body) in the joined continuation text
Occurrences(text) == RE_PAREN_GROUP_finditer(Strip(text), 1)

\* metrics.groups[m.name] is the body of the occurrence m, parsed
GroupParsed(metrics, m) ==
    /\ "groups" \in DOMAIN metrics
    /\ metrics["groups"].t = "dict"
    /\ m.name \in DOMAIN metrics["groups"].d
    /\ metrics["groups"].d[m.name] = Dict(parse_paren_body(m.body).d)

\* no key and no part of the body is in the outer mapping, in flags or in
\* unparsed
InnerAbsent(metrics, body) ==
    /\ \A key \in DOMAIN parse_paren_body(body).d : key \notin DOMAIN metrics
    /\ \A i \in DOMAIN StrippedParts(body) :
          /\ ~InList(metrics, "flags", StrippedParts(body)[i])
          /\ ~InList(metrics, "unparsed", StrippedParts(body)[i])

\* C18: every occurrence of name:(body) in the metrics text is parsed into
\* metrics.groups[name], and nothing of its body appears in the outer mapping
C18_GroupsExtracted ==
    arg.fn = "parse_metrics" =>
        \A k \in DOMAIN calls :
            \A i \in DOMAIN Occurrences(arg.s) :
                /\ ~calls[k].raised
                /\ GroupParsed(calls[k].d, Occurrences(arg.s)[i])
                /\ InnerAbsent(calls[k].d, Occurrences(arg.s)[i].body)

\* the port as the claims state it: the integer when the port text is all
\* digits, the text itself otherwise
PortOf(text) == IF Digits(text) THEN PyInt(text) ELSE Str(text)

\* where the last "]:" of a token is, 0 when it has none
BracketClose(token) ==
    LastOr({i \in 1..(Len(token) - 1) : SubSeq(token, i, i + 1) = "]:"}, 0)

\* a bracketed token "[addr]:port", whatever its port text
Bracketed(token) == StartsWith(token, "[") /\ BracketClose(token) # 0

\* ip and port are the address text and the port of the port text
EndpointOf(endpoint, addr, port) ==
    /\ endpoint.ip = Str(addr)
    /\ endpoint.port = PortOf(port)

\* C19: for every endpoint token with a port, bracketed [addr]:port or not,
\* ip is the address part and port is the integer when the port text is all
\* digits, the port text itself otherwise
C19_EndpointParts ==
    arg.fn = "parse_ip_port" =>
        \A k \in DOMAIN calls :
            IF Bracketed(arg.s)
            THEN EndpointOf(calls[k], SubSeq(arg.s, 2, BracketClose(arg.s) - 1),
                            SubSeq(arg.s, BracketClose(arg.s) + 2, Len(arg.s)))
            ELSE Contains(arg.s, ":") /\ ~StartsWith(arg.s, "[") =>
                    EndpointOf(calls[k], RSplitFirst(arg.s, ":")[1], RSplitFirst(arg.s, ":")[2])

\* C20: raw is always the original token; for a token that does not start
\* with "[", ip is what is left of the right-most colon and port is the
\* integer when what is right of it is all digits, that text otherwise; with
\* no colon, ip is the whole token and port is null
C20_LastColonSplit ==
    arg.fn = "parse_ip_port" =>
        \A k \in DOMAIN calls :
            /\ calls[k].raw = arg.s
            /\ ~StartsWith(arg.s, "[") =>
                  IF \E i \in 1..Len(arg.s) : Ch(arg.s, i) = ":"
                  THEN LET colon == CHOOSE i \in 1..Len(arg.s) :
                                       /\ Ch(arg.s, i) = ":"
                                       /\ \A j \in (i + 1)..Len(arg.s) : Ch(arg.s, j) # ":"
                       IN  EndpointOf(calls[k], SubSeq(arg.s, 1, colon - 1),
                                      SubSeq(arg.s, colon + 1, Len(arg.s)))
                  ELSE calls[k].ip = Str(arg.s) /\ calls[k].port = None

\* C20: a token with three colons was split at the right-most one, and its
\* digits became the integer port
C20_Witness ==
    /\ arg = [fn |-> "parse_ip_port", s |-> "::1:22"]
    /\ calls # <<>>
    /\ calls[1] = [raw |-> "::1:22", ip |-> Str("::1"), port |-> [t |-> "int", v |-> "22"]]

\* the lines of a text that count: not blank, and not the column-header row
\* (a non-indented line that begins with the state-column label)
SocketLines(text) ==
    SelectSeq(SplitLines(text),
              LAMBDA ln : Strip(ln) # "" /\ ~StartsWith(ln, "State "))

\* the positions of the non-indented lines
HeaderLines(lines) == {i \in DOMAIN lines : Ch(lines[i], 1) \notin SpaceCh}

\* the position of the j-th non-indented line
HeaderLine(lines, j) ==
    CHOOSE i \in HeaderLines(lines) : Cardinality({h \in HeaderLines(lines) : h <= i}) = j

\* the whitespace-leading lines that follow line i up to the next non-indented
\* line, trimmed
FollowingLines(lines, i) ==
    [n \in 1..(FirstOr({h \in HeaderLines(lines) : h > i}, Len(lines) + 1) - i - 1) |->
        Strip(lines[i + n])]

\* the blocks that begin at a header line
HeadedBlocks(blocks) == SelectSeq(blocks, LAMBDA b : b.header # "")

\* C21: split_blocks returns, in input order, one pair for each non-indented
\* line other than the column-header row, whose continuation is exactly the
\* whitespace-leading lines that follow it up to the next non-indented line:
\* no continuation line is dropped or attached to another block
C21_BlockPerHeaderLine ==
    arg.fn = "split_blocks" =>
        \A k \in DOMAIN calls :
            /\ Len(HeadedBlocks(calls[k])) = Cardinality(HeaderLines(SocketLines(arg.s)))
            /\ \A j \in DOMAIN HeadedBlocks(calls[k]) :
                  /\ HeadedBlocks(calls[k])[j].header =
                        Strip(SocketLines(arg.s)[HeaderLine(SocketLines(arg.s), j)])
                  /\ HeadedBlocks(calls[k])[j].cont =
                        FollowingLines(SocketLines(arg.s), HeaderLine(SocketLines(arg.s), j))

\* a header line of the shape state recv_q send_q local peer [process-info]:
\* five whitespace-delimited fields or more, the second and third integers
HeaderShape(f) == Len(f) >= 5 /\ Digits(f[2]) /\ Digits(f[3])

\* the record holds the fields f of its header line: the state, the two
\* queue lengths as integers, the two endpoints, and the process text that
\* follows the fifth field
HoldsHeader(rec, f) ==
    /\ "state" \in DOMAIN rec
    /\ rec.state = f[1]
    /\ rec.recv_q = PyInt(f[2])
    /\ rec.send_q = PyInt(f[3])
    /\ rec.local = parse_ip_port(f[4])
    /\ rec.peer = parse_ip_port(f[5])
    /\ SplitWs(rec.process) = SubSeq(f, 6, Len(f))

RECURSIVE Classified(_, _)
Classified(tokens, i) ==
    IF i > Len(tokens) THEN <<>>
    ELSE IF Contains(tokens[i], ":")
    THEN <<[rule |-> "store", key |-> Strip(SplitFirst(tokens[i], ":")[1]),
            v |-> coerce_value(SplitFirst(tokens[i], ":")[2])]>>
         \o Classified(tokens, i + 1)
    ELSE IF RE_IDENTIFIER(tokens[i]) /\ i < Len(tokens) /\ looks_like_value(tokens[i + 1])
    THEN <<[rule |-> "store", key |-> tokens[i], v |-> coerce_value(tokens[i + 1])]>>
         \o Classified(tokens, i + 2)
    ELSE <<[rule |-> "append", key |-> IF RE_IDENTIFIER(tokens[i]) THEN "flags" ELSE "unparsed",
            v |-> Str(tokens[i])]>>
         \o Classified(tokens, i + 1)

\* no rule after rules[j] stores a value under the key k
LastStore(rules, j, k) ==
    \A n \in DOMAIN rules : n > j => ~(rules[n].rule = "store" /\ rules[n].key = k)

\* metrics holds what rules[j] put there, unless a later rule stored over it
Applied(metrics, rules, j) ==
    LastStore(rules, j, rules[j].key) =>
        IF rules[j].rule = "store"
        THEN rules[j].key \in DOMAIN metrics /\ metrics[rules[j].key] = rules[j].v
        ELSE InList(metrics, rules[j].key, rules[j].v.s)

\* metrics.cc is the first token left after group removal when that token is
\* a bare identifier
CcTaken(metrics, tokens, rules) ==
    HasCc(tokens) /\ LastStore(rules, 0, "cc") =>
        "cc" \in DOMAIN metrics /\ metrics["cc"] = Str(tokens[1])

\* C23: parse_metrics classifies the tokens left after group removal from left
\* to right: a leading bare identifier is metrics.cc, a token with a colon is
\* stored under its key, a bare identifier before a value-like token is stored
\* with that value, another bare identifier is appended to flags and anything
\* else to unparsed
C23_TokensClassified ==
    arg.fn = "parse_metrics" =>
        \A k \in DOMAIN calls :
            LET all   == SplitWs(Strip(RE_PAREN_GROUP_sub(Strip(arg.s))))
                rules == Classified(TokensLeft(all), 1)
            IN  /\ ~calls[k].raised
                /\ CcTaken(calls[k].d, all, rules)
                /\ \A j \in DOMAIN rules : Applied(calls[k].d, rules, j)

\* the bookkeeping fields of metrics have the values parse_metrics gave them:
\* raw is the joined text, cc a name, groups a mapping, flags and unparsed
\* lists
Bookkeeping(metrics, text) ==
    /\ "raw" \in DOMAIN metrics /\ metrics["raw"] = Str(text)
    /\ "cc" \in DOMAIN metrics => metrics["cc"].t = "str"
    /\ "groups" \in DOMAIN metrics => metrics["groups"].t = "dict"
    /\ "flags" \in DOMAIN metrics => metrics["flags"].t = "list"
    /\ "unparsed" \in DOMAIN metrics => metrics["unparsed"].t = "list"

\* C29: no token of the input overwrites a bookkeeping field of metrics (raw,
\* cc, groups, flags, unparsed): in what parse_metrics returns, raw is the
\* joined continuation text and flags and unparsed are lists
C29_BookkeepingKept ==
    arg.fn = "parse_metrics" =>
        \A k \in DOMAIN calls : ~calls[k].raised => Bookkeeping(calls[k].d, Strip(arg.s))

\* the collection of the current sweep is over
SweepOver == sweep >= 1 /\ pc \in {"sleep", "done", "dead"}

\* the directory holds under the name a complete document captured in sweep s
WrittenIn(name, s) ==
    /\ name \in DOMAIN dir
    /\ ino[dir[name]].len = DocChunks
    /\ ino[dir[name]].doc.meta.captured_at_utc = s

\* a success document: meta and the sockets list, and no error
SnapshotShape(doc, host) ==
    /\ {"meta", "sockets"} \subseteq DOMAIN doc
    /\ "error" \notin DOMAIN doc
    /\ doc.meta.mininet_host = host

\* a failure document: meta, the error string, and a prefix of at most
\* StdoutHeadLen characters of the captured standard output
FailureShape(doc, host, r) ==
    /\ {"meta", "error", "stdout_head"} \subseteq DOMAIN doc
    /\ doc.meta.mininet_host = host
    /\ doc.error.t = "str"
    /\ Len(doc.stdout_head.s) <= StdoutHeadLen
    /\ doc.stdout_head.s = SubSeq(r.out.s, 1, Len(doc.stdout_head.s))

\* the host's document of sweep s is the one its outcome r calls for
DocumentFor(host, r, s) ==
    IF WrittenIn(host_ok_file(host), s)
    THEN /\ ~WrittenIn(host_error_file(host), s)
         /\ r.rc = 0
         /\ SnapshotShape(ino[dir[host_ok_file(host)]].doc, host)
    ELSE /\ WrittenIn(host_error_file(host), s)
         /\ FailureShape(ino[dir[host_error_file(host)]].doc, host, r)

\* C24: a sweep writes one document for every configured host:
\* <host>_ss_tin.json with meta and sockets when the host succeeded,
\* <host>_ss_tin_error.json with meta, error and the bounded stdout_head when
\* it failed
C24_DocumentPerHost ==
    SweepOver =>
        \A i \in DOMAIN hosts :
            /\ i <= Len(results)
            /\ DocumentFor(hosts[i], results[i], sweep)

\* a sweep has completed: every host has its entry and index.json is written
SweepCompleted ==
    /\ sweep >= 1 /\ pc \in {"sleep", "done"} /\ exc = "none"
    /\ Len(index) = Len(hosts)

\* C27: after a completed sweep the directory holds one document per host, the
\* one its index entry names; the document of the other kind that an earlier
\* sweep wrote for the host is gone
C27_OneDocumentPerHost ==
    SweepCompleted =>
        \A i \in DOMAIN hosts :
            /\ index[i].file \in DOMAIN dir
            /\ \A name \in {host_ok_file(hosts[i]), host_error_file(hosts[i])} :
                  name \in DOMAIN dir => name = index[i].file

\* C30: no request handler ever opens or sends a partially written document,
\* under whatever name it is asked for: the temporary file of
\* atomic_write_text cannot be fetched while the collector is writing it
C30_NoPartialDocumentServed ==
    \A r \in Readers :
        /\ rd[r].pc = "open" => Complete(ino[rd[r].fd])
        /\ rd[r].pc = "done" /\ rd[r].resp.status = 200 => Complete(rd[r].resp.body)

\* the entries of the index.json in the directory
Indexed == ino[dir["index.json"]].doc.hosts

\* C28: whenever index.json is in the output directory, in the middle of a
\* later sweep too, every file an entry of it names is in the directory
C28_IndexedFilesExist ==
    "index.json" \in DOMAIN dir =>
        \A j \in DOMAIN Indexed : Indexed[j].file \in DOMAIN dir

\* C28: in the middle of the second sweep a host's outcome has changed: its
\* error document is being written while the index.json of the first sweep
\* names its snapshot
C28_Witness ==
    /\ sweep = 2 /\ pc = "write" /\ wr.path = host_error_file(hosts[1])
    /\ "index.json" \in DOMAIN dir
    /\ Len(Indexed) = Len(hosts)
    /\ Indexed[1].file = host_ok_file(hosts[1])
    /\ host_ok_file(hosts[1]) \in DOMAIN dir

\* C25: when the command of an attempt is terminated at its timeout, every
\* process started for that attempt is killed with it: none remains alive
C25_NoProcessLeft == ps = {}

(***************************************************************************)
(* Properties of run_batch, under SpecBatch.                               *)
(***************************************************************************)
\* the hosts run_batch counts as failed: those whose process exited non-zero
\* and those whose process group was sent SIGKILL
Failed == {i \in DOMAIN batch.procs : batch.procs[i].sigkill \/ batch.procs[i].rc # 0}

\* every host is launched before the first poll; a process group is killed
\* only once its deadline has passed; at the return every process has exited
\* or was killed and the number returned is the number of failed hosts
C26_Batch ==
    /\ batch.pc \in {"poll", "kill", "sleep", "returned"} =>
          /\ Len(batch.procs) = Len(batch.host_ids)
          /\ \A i \in DOMAIN batch.procs :
                batch.procs[i].sigkill => batch.now >= batch.deadlines[i]
    /\ batch.pc = "returned" =>
          /\ \A i \in DOMAIN batch.procs : batch.procs[i].st \in {"exited", "killed"}
          /\ batch.failures = Cardinality(Failed)

\* a pass of the loop that finds a process finished takes it off alive and
\* does not list it as timed out, whether or not its deadline has passed
C26_FinishedFirst ==
    batch.pc = "poll" /\ batch'.pc # "poll" =>
        \A i \in batch.alive :
            batch.procs[i].st = "exited" =>
                /\ i \notin batch'.alive
                /\ i \notin Range(batch'.timed_out)
                /\ batch'.procs[i] = batch.procs[i]

\* C26: run_batch launches every host of the batch before it waits; when it
\* returns every process has exited or its group was killed after its
\* deadline, the number returned counts once each host that exited non-zero
\* or timed out, and a process found finished in the pass in which its
\* deadline has passed is treated as finished
C26_BatchWaited == [](C26_Batch) /\ [][C26_FinishedFirst]_vars

\* C26: run_batch has returned 1: the first process exited with status 0 and
\* was found finished although its deadline had passed, the second was still
\* running past its deadline and was killed
C26_Witness ==
    /\ batch.pc = "returned" /\ batch.failures = 1
    /\ batch.procs[1] = [st |-> "exited", rc |-> 0, sigkill |-> FALSE]
    /\ batch.procs[2].st = "killed"
    /\ batch.deadlines[1] = batch.deadlines[2]

====
